---- MODULE Spec2Model ----
(***************************************************************************)
(* Model of app.py, the CASPER infrastructure dashboard: a linear script   *)
(* that builds a table of machines (df), derives the summary statistics    *)
(* (totals, GPU count), prepares the pie-chart data, writes the top-N      *)
(* lists by threads and by RAM with their share of the total, lists the    *)
(* GPU-enabled machines and finally renders the whole table.               *)
(*                                                                         *)
(* A table is a sequence of rows; a row is a record with the columns the   *)
(* script reads: name ('Machine name'), Threads, RAM and GPU.  The storage,*)
(* swap and location columns are opaque labels that no statement of the    *)
(* script reads, and are left out.  A string is a sequence of one-character*)
(* strings, so that str.strip() is computed rather than assumed.           *)
(***************************************************************************)
EXTENDS Integers, Sequences, FiniteSets, TLC

VARIABLES
    infrastructure_data, \* the dict of columns the table is built from
    n,                   \* the count handed to nlargest (the literal 3 in the script)
    pc,                  \* position of the script
    df,                  \* the rows of the DataFrame
    dtypes,              \* the dtype pandas inferred for its numeric columns
    total_machines, total_threads, total_ram, gpu_machines,
    threads_data, ram_data,
    top_threads, top_threads_out,
    top_ram, top_ram_out,
    gpu_machines_df, gpu_out, gpu_fallback,
    table

vars == <<infrastructure_data, n, pc, df, dtypes, total_machines, total_threads,
          total_ram, gpu_machines, threads_data, ram_data, top_threads,
          top_threads_out, top_ram, top_ram_out, gpu_machines_df, gpu_out,
          gpu_fallback, table>>

----------------------------------------------------------------------------
(* Bounds of the explored inputs *)

MaxLen == 4
MaxThreads == 2
MaxRAM == 2

(* The count the script passes to nlargest *)
TopCount == 3

(* A missing cell of a numeric column (pandas NaN).  RAM values are        *)
(* non-negative, so -1 is outside the column's range; it also orders below *)
(* every present value, as NaN does in nlargest.                           *)
NaN == 0 - 1

Whitespace == {" ", "\t", "\n"}

----------------------------------------------------------------------------
(* The hard-coded data of the script *)

MachineNames ==
    <<"ISCA", "MICRO", "HPCA", "USEC", "ASPLOS", "usenix", "sharcserver1", "dhristi">>

HardThreads == <<96, 96, 96, 48, 96, 128, 64, 512>>

HardRAM == <<128, 128, 128, 128, 204, 64, 64, 512>>

HardGPU ==
    << <<>>, <<>>, <<>>, <<>>, <<>>,
       <<"N","V","I","D","I","A"," ","R","T","X"," ","A","6","0","0","0">>,
       <<"A","M","D"," ","R","X","7","9","9","0"," ","X","T">>,
       <<>> >>

(* GPU cells explored besides the hard-coded ones: empty, whitespace only, *)
(* and descriptions with leading, trailing and inner whitespace.           *)
GpuValues ==
    { <<>>, <<" ">>, <<" ", "\t">>, <<"x">>, <<" ", "x">>, <<"x", " ">>,
      <<" ", "x", "\t">>, <<"x", " ", "y">> }

----------------------------------------------------------------------------
(* Library operations, as the script uses them *)

RECURSIVE lstrip(_)
lstrip(s) ==
    IF s = <<>> THEN s
    ELSE IF Head(s) \in Whitespace THEN lstrip(Tail(s)) ELSE s

RECURSIVE rstrip(_)
rstrip(s) ==
    IF s = <<>> THEN s
    ELSE IF s[Len(s)] \in Whitespace THEN rstrip(SubSeq(s, 1, Len(s) - 1)) ELSE s

(* A variant that compares the raw cell *)
strip_nothing(s) == s

strip(s) == rstrip(lstrip(s))

(* pd.DataFrame(dict of equal-length columns): row i takes cell i of each column *)
DataFrame(d) ==
    [i \in 1..Len(d.Threads) |->
        [name |-> d.name[i], Threads |-> d.Threads[i],
         RAM |-> d.RAM[i], GPU |-> d.GPU[i]]]

(* The dtype the DataFrame constructor infers for a column of numbers: an  *)
(* empty list has nothing to infer from and becomes an object column, a    *)
(* list with a missing cell becomes float64, a list of integers int64.     *)
infer_dtype(column) ==
    IF Len(column) = 0 THEN "object"
    ELSE IF \E i \in 1..Len(column) : column[i] = NaN THEN "float64"
         ELSE "int64"

(* SelectN.is_valid_dtype_n_method: nlargest accepts numeric columns only  *)
(* and raises TypeError for any other dtype, before looking at the count.  *)
is_valid_dtype_n_method(dtype) == dtype \in {"int64", "float64"}

(* Series.sum(): NaN cells are skipped, the empty sum is 0 *)
RECURSIVE sum(_, _)
sum(frame, col) ==
    IF frame = <<>> THEN 0
    ELSE (IF Head(frame)[col] = NaN THEN 0 ELSE Head(frame)[col])
         + sum(Tail(frame), col)

(* A variant that keeps every row *)
dropna_keeps_all(frame) == frame

(* dropna on the RAM column: the rows whose RAM cell is present, in order *)
RECURSIVE dropna(_)
dropna(frame) ==
    IF frame = <<>> THEN <<>>
    ELSE IF Head(frame).RAM = NaN THEN dropna(Tail(frame))
         ELSE <<Head(frame)>> \o dropna(Tail(frame))

(* Insert row r into a frame sorted descending by col, behind every row    *)
(* whose cell is >= r's cell (stable for rows inserted in input order).    *)
RECURSIVE insert_desc(_, _, _)
insert_desc(sorted, r, col) ==
    IF sorted = <<>> THEN <<r>>
    ELSE IF Head(sorted)[col] >= r[col]
         THEN <<Head(sorted)>> \o insert_desc(Tail(sorted), r, col)
         ELSE <<r>> \o sorted

RECURSIVE sort_desc(_, _, _)
sort_desc(frame, col, k) ==
    IF k = 0 THEN <<>>
    ELSE insert_desc(sort_desc(frame, col, k - 1), frame[k], col)

(* A variant that takes one row too few *)
nlargest_one_short(frame, k, col) ==
    IF k <= 0 THEN <<>>
    ELSE LET s == sort_desc(frame, col, Len(frame))
         IN  SubSeq(s, 1, (IF k < Len(s) THEN k ELSE Len(s)) - 1)

(* DataFrame.nlargest(k, col), keep='first': the first k rows in descending*)
(* order of col, equal cells in their original order; no rows for k <= 0.  *)
nlargest(frame, k, col) ==
    IF k <= 0 THEN <<>>
    ELSE LET s == sort_desc(frame, col, Len(frame))
         IN  SubSeq(s, 1, IF k < Len(s) THEN k ELSE Len(s))

(* (value / total) * 100 in floating point, kept as the exact ratio; a zero*)
(* total gives nan for 0/0 and inf otherwise (numpy scalar division).      *)
percentage(value, total) ==
    IF total = 0
    THEN [kind |-> IF value = 0 THEN "nan" ELSE "inf", num |-> 0, den |-> 0]
    ELSE [kind |-> "ratio", num |-> value * 100, den |-> total]

(* frame[['Machine name', col]]: the two-column projection, rows in order *)
project(frame, col) ==
    [i \in 1..Len(frame) |-> [name |-> frame[i].name, value |-> frame[i][col]]]

(* len([gpu for gpu in df['GPU'] if gpu.strip() != '']) *)
gpu_count(frame) ==
    Len(SelectSeq(frame, LAMBDA r : strip(r.GPU) # <<>>))

(* A variant that tests the untrimmed cell *)
gpu_filter_untrimmed(frame) ==
    project(SelectSeq(frame, LAMBDA r : r.GPU # <<>>), "GPU")

(* df[df['GPU'].str.strip() != ''][['Machine name', 'GPU']] *)
gpu_filter(frame) ==
    project(SelectSeq(frame, LAMBDA r : strip(r.GPU) # <<>>), "GPU")

(* The lines one "for idx, row in top.iterrows()" loop writes *)
write_top(top, total) ==
    [i \in 1..Len(top) |->
        [name |-> top[i].name, value |-> top[i].value,
         percentage |-> percentage(top[i].value, total)]]

----------------------------------------------------------------------------
(* Initial states: the dict of columns before the script runs.  Columns    *)
(* have equal length and machine names are distinct, as in the script.     *)

NRange == (0 - 1)..(MaxLen + 1)

Columns(len, threads, ram, gpu) ==
    [name |-> SubSeq(MachineNames, 1, len), Threads |-> threads,
     RAM |-> ram, GPU |-> gpu]

Unset ==
    /\ pc = "construct"
    /\ df = <<>> /\ dtypes = [Threads |-> "object", RAM |-> "object"]
    /\ total_machines = 0 /\ total_threads = 0 /\ total_ram = 0
    /\ gpu_machines = 0
    /\ threads_data = <<>> /\ ram_data = <<>>
    /\ top_threads = <<>> /\ top_threads_out = <<>>
    /\ top_ram = <<>> /\ top_ram_out = <<>>
    /\ gpu_machines_df = <<>> /\ gpu_out = <<>> /\ gpu_fallback = FALSE
    /\ table = <<>>

(* The script as written *)
InitHardcoded ==
    /\ infrastructure_data = Columns(8, HardThreads, HardRAM, HardGPU)
    /\ n = TopCount
    /\ Unset

(* Any thread counts, any count handed to nlargest *)
InitThreads ==
    /\ \E len \in 0..MaxLen : \E threads \in [1..len -> 0..MaxThreads] :
          infrastructure_data =
              Columns(len, threads, [i \in 1..len |-> 64], [i \in 1..len |-> <<>>])
    /\ n \in NRange
    /\ Unset

(* Any RAM cells, present or missing, any count handed to nlargest *)
InitRAM ==
    /\ \E len \in 0..MaxLen : \E ram \in [1..len -> {NaN} \cup 0..MaxRAM] :
          infrastructure_data =
              Columns(len, [i \in 1..len |-> 96], ram, [i \in 1..len |-> <<>>])
    /\ n \in NRange
    /\ Unset

(* Any GPU descriptions *)
InitGPU ==
    /\ \E len \in 0..MaxLen : \E gpu \in [1..len -> GpuValues] :
          infrastructure_data =
              Columns(len, [i \in 1..len |-> 96], [i \in 1..len |-> 64], gpu)
    /\ n = TopCount
    /\ Unset

Init == InitHardcoded \/ InitThreads \/ InitRAM \/ InitGPU

----------------------------------------------------------------------------
(* The script, one action per block *)

Construct ==
    /\ pc = "construct"
    /\ df' = DataFrame(infrastructure_data)
    /\ dtypes' = [Threads |-> infer_dtype(infrastructure_data.Threads),
                  RAM |-> infer_dtype(infrastructure_data.RAM)]
    /\ pc' = "summary"
    /\ UNCHANGED <<infrastructure_data, n, total_machines, total_threads,
                   total_ram, gpu_machines, threads_data, ram_data,
                   top_threads, top_threads_out, top_ram, top_ram_out,
                   gpu_machines_df, gpu_out, gpu_fallback, table>>

Summary ==
    /\ pc = "summary"
    /\ total_machines' = Len(df)
    /\ total_threads' = sum(df, "Threads")
    /\ total_ram' = sum(dropna(df), "RAM")
    /\ gpu_machines' = gpu_count(df)
    /\ pc' = "pie"
    /\ UNCHANGED <<infrastructure_data, n, df, dtypes, threads_data, ram_data,
                   top_threads, top_threads_out, top_ram, top_ram_out,
                   gpu_machines_df, gpu_out, gpu_fallback, table>>

PieData ==
    /\ pc = "pie"
    /\ threads_data' = project(df, "Threads")
    /\ ram_data' = project(dropna(df), "RAM")
    /\ pc' = "top_threads"
    /\ UNCHANGED <<infrastructure_data, n, df, dtypes, total_machines, total_threads,
                   total_ram, gpu_machines, top_threads, top_threads_out,
                   top_ram, top_ram_out, gpu_machines_df, gpu_out,
                   gpu_fallback, table>>

(* A variant that sorts the table itself before taking the head *)
TopThreadsInPlace ==
    /\ pc = "top_threads"
    /\ IF is_valid_dtype_n_method(dtypes.Threads)
       THEN /\ df' = sort_desc(df, "Threads", Len(df))
            /\ top_threads' = project(nlargest(df, n, "Threads"), "Threads")
            /\ top_threads_out' = write_top(top_threads', total_threads)
            /\ pc' = "top_ram"
       ELSE /\ pc' = "TypeError"
            /\ UNCHANGED <<df, top_threads, top_threads_out>>
    /\ UNCHANGED <<infrastructure_data, n, dtypes, total_machines,
                   total_threads, total_ram, gpu_machines, threads_data,
                   ram_data, top_ram, top_ram_out, gpu_machines_df, gpu_out,
                   gpu_fallback, table>>

(* nlargest on an object column raises TypeError, which nothing catches:   *)
(* the script ends there.                                                  *)
TopThreads ==
    /\ pc = "top_threads"
    /\ IF is_valid_dtype_n_method(dtypes.Threads)
       THEN /\ top_threads' = project(nlargest(df, n, "Threads"), "Threads")
            /\ top_threads_out' = write_top(top_threads', total_threads)
            /\ pc' = "top_ram"
       ELSE /\ pc' = "TypeError"
            /\ UNCHANGED <<top_threads, top_threads_out>>
    /\ UNCHANGED <<infrastructure_data, n, df, dtypes, total_machines,
                   total_threads, total_ram, gpu_machines, threads_data,
                   ram_data, top_ram, top_ram_out, gpu_machines_df, gpu_out,
                   gpu_fallback, table>>

TopRam ==
    /\ pc = "top_ram"
    /\ IF is_valid_dtype_n_method(dtypes.RAM)
       THEN /\ top_ram' = project(nlargest(dropna(df), n, "RAM"), "RAM")
            /\ top_ram_out' = write_top(top_ram', total_ram)
            /\ pc' = "gpu"
       ELSE /\ pc' = "TypeError"
            /\ UNCHANGED <<top_ram, top_ram_out>>
    /\ UNCHANGED <<infrastructure_data, n, df, dtypes, total_machines,
                   total_threads, total_ram, gpu_machines, threads_data,
                   ram_data, top_threads, top_threads_out, gpu_machines_df,
                   gpu_out, gpu_fallback, table>>

GpuSection ==
    /\ pc = "gpu"
    /\ gpu_machines_df' = gpu_filter(df)
    /\ IF gpu_machines_df' # <<>>
       THEN gpu_out' = gpu_machines_df' /\ gpu_fallback' = FALSE
       ELSE gpu_out' = <<>> /\ gpu_fallback' = TRUE
    /\ pc' = "table"
    /\ UNCHANGED <<infrastructure_data, n, df, dtypes, total_machines, total_threads,
                   total_ram, gpu_machines, threads_data, ram_data,
                   top_threads, top_threads_out, top_ram, top_ram_out, table>>

DataTable ==
    /\ pc = "table"
    /\ table' = df
    /\ pc' = "done"
    /\ UNCHANGED <<infrastructure_data, n, df, dtypes, total_machines, total_threads,
                   total_ram, gpu_machines, threads_data, ram_data,
                   top_threads, top_threads_out, top_ram, top_ram_out,
                   gpu_machines_df, gpu_out, gpu_fallback>>

Next ==
    \/ Construct
    \/ Summary
    \/ PieData
    \/ TopThreads
    \/ TopRam
    \/ GpuSection
    \/ DataTable

Spec == Init /\ [][Next]_vars

----------------------------------------------------------------------------
(* Vocabulary of the properties *)

SummaryDone == pc \notin {"construct", "summary"}

TopThreadsReturned == pc \in {"top_ram", "gpu", "table", "done"}

TopThreadsActed == TopThreadsReturned \/ pc = "TypeError"

TopRamReturned == pc \in {"gpu", "table", "done"}

GpuSectionDone == pc \in {"table", "done"}

Min(a, b) == IF a < b THEN a ELSE b

RECURSIVE SumFn(_, _)
SumFn(f, I) ==
    IF I = {} THEN 0
    ELSE LET i == CHOOSE j \in I : TRUE IN f[i] + SumFn(f, I \ {i})

Rows == 1..Len(df)

PresentRAM == {i \in Rows : df[i].RAM # NaN}

(* A string that is non-empty after trimming holds a non-whitespace character *)
HasVisibleChar(str) == \E j \in 1..Len(str) : str[j] \notin Whitespace

GpuRows == {i \in Rows : HasVisibleChar(df[i].GPU)}

Known(out) == \A i \in 1..Len(out) : \E r \in Rows : df[r].name = out[i].name

RowOf(entry) == CHOOSE r \in Rows : df[r].name = entry.name

(* out is the top k of the rows in eligible, by column col: as many rows   *)
(* as fit, each carrying its own cell, in descending order with equal      *)
(* cells in input order, and every row left out ranks behind each one in.  *)
Ranked(out, eligible, col, k) ==
    /\ Known(out)
    /\ Len(out) = Min(k, Cardinality(eligible))
    /\ \A i \in 1..Len(out) :
          /\ RowOf(out[i]) \in eligible
          /\ out[i].value = df[RowOf(out[i])][col]
    /\ \A i, j \in 1..Len(out) :
          i < j => \/ out[i].value > out[j].value
                   \/ /\ out[i].value = out[j].value
                      /\ RowOf(out[i]) < RowOf(out[j])
    /\ \A i \in 1..Len(out) :
          \A m \in eligible \ {RowOf(out[j]) : j \in 1..Len(out)} :
              \/ out[i].value > df[m][col]
              \/ out[i].value = df[m][col] /\ RowOf(out[i]) < m

----------------------------------------------------------------------------
C1_RankingWhenReturned ==
    (n >= 0 /\ TopThreadsReturned) => Ranked(top_threads, Rows, "Threads", n)

C1_TieAtTheCut ==
    /\ TopThreadsReturned
    /\ n >= 2 /\ n < Len(df)
    /\ \E i, j \in 1..Len(top_threads) :
          i < j /\ top_threads[i].value = top_threads[j].value
    /\ \E m \in Rows :
          /\ \A i \in 1..Len(top_threads) : top_threads[i].name # df[m].name
          /\ df[m].Threads = top_threads[Len(top_threads)].value

----------------------------------------------------------------------------
(* C2: a row whose RAM cell is missing adds nothing to total_ram and is    *)
(* never listed in the top-n by RAM, whatever n: total_ram is the sum over *)
(* exactly the rows with RAM present (0 when there are none), the list     *)
(* ranks those rows only, and each share is taken of that total_ram.       *)
C2_AbsentRAMExcluded ==
    /\ SummaryDone =>
          total_ram = SumFn([i \in PresentRAM |-> df[i].RAM], PresentRAM)
    /\ TopRamReturned =>
          /\ Known(top_ram)
          /\ \A i \in 1..Len(top_ram) : RowOf(top_ram[i]) \in PresentRAM
          /\ n >= 0 => Ranked(top_ram, PresentRAM, "RAM", n)
          /\ Len(top_ram_out) = Len(top_ram)
          /\ \A i \in 1..Len(top_ram_out) :
                /\ top_ram_out[i].name = top_ram[i].name
                /\ top_ram_out[i].percentage.kind = "ratio" =>
                      /\ top_ram_out[i].percentage.den = total_ram
                      /\ top_ram_out[i].percentage.num = 100 * top_ram[i].value

C2_AbsentRowWouldFit ==
    /\ TopRamReturned
    /\ PresentRAM # {} /\ PresentRAM # Rows
    /\ n > Cardinality(PresentRAM)
    /\ Len(top_ram_out) = Cardinality(PresentRAM)
    /\ total_ram > 0

(* C3: when the total a share is taken of is 0 and the top-n list is not   *)
(* empty, every entry reports its share as not applicable, never as nan or *)
(* inf.                                                                    *)
C3_ZeroTotalNotApplicable ==
    /\ (TopThreadsReturned /\ total_threads = 0) =>
          \A i \in 1..Len(top_threads_out) :
              top_threads_out[i].percentage.kind = "not applicable"
    /\ (TopRamReturned /\ total_ram = 0) =>
          \A i \in 1..Len(top_ram_out) :
              top_ram_out[i].percentage.kind = "not applicable"

(* C4: a negative n is rejected before anything is computed: the script    *)
(* never gets past the top-n step with an (empty) list in hand.            *)
C4_NegativeCountRejected ==
    n < 0 => ~TopThreadsReturned

(* C5: the GPU section lists exactly the rows whose GPU cell is non-empty  *)
(* after trimming, in input order, each with the trimmed description.      *)
C5_GpuListedTrimmed ==
    GpuSectionDone =>
        /\ Known(gpu_out)
        /\ {RowOf(gpu_out[i]) : i \in 1..Len(gpu_out)} = GpuRows
        /\ \A i, j \in 1..Len(gpu_out) :
              i < j => RowOf(gpu_out[i]) < RowOf(gpu_out[j])
        /\ \A i \in 1..Len(gpu_out) :
              LET text == gpu_out[i].value IN
              /\ text # <<>>
              /\ Head(text) \notin Whitespace
              /\ text[Len(text)] \notin Whitespace
              /\ \E a, b \in 0..Len(df[RowOf(gpu_out[i])].GPU) :
                    text = SubSeq(df[RowOf(gpu_out[i])].GPU, a + 1, b)

(* C6: the GPU count is the number of rows whose GPU cell is non-empty     *)
(* after trimming; an empty or whitespace-only cell is not counted.        *)
C6_GpuCountTrimmed ==
    SummaryDone => gpu_machines = Cardinality(GpuRows)

C6_WhitespaceOnlyCell ==
    /\ SummaryDone
    /\ \E i \in Rows : df[i].GPU # <<>> /\ ~HasVisibleChar(df[i].GPU)
    /\ \E i \in Rows : df[i].GPU = <<>>
    /\ gpu_machines >= 1

C7_TotalsOnly ==
    SummaryDone =>
        /\ total_threads = SumFn([i \in Rows |-> df[i].Threads], Rows)
        /\ total_machines = Cardinality(Rows)

(* C8: when total_threads > 0, the shares written for the top-n with n the *)
(* number of machines add up to 100: every row is reported exactly once,   *)
(* the reported thread counts add up to total_threads, and each share is   *)
(* that count * 100 over total_threads.                                    *)
C8_SharesSumTo100 ==
    (TopThreadsReturned /\ total_threads > 0 /\ n = total_machines) =>
        LET out == top_threads_out
            Lines == 1..Len(out)
        IN  /\ Known(out)
            /\ Len(out) = Len(df)
            /\ {RowOf(out[i]) : i \in Lines} = Rows
            /\ SumFn([i \in Lines |-> out[i].value], Lines) = total_threads
            /\ \A i \in Lines :
                  /\ out[i].percentage.kind = "ratio"
                  /\ out[i].percentage.den = total_threads
            /\ SumFn([i \in Lines |-> out[i].percentage.num], Lines)
                  = 100 * total_threads

C8_AllMachinesListed ==
    /\ TopThreadsReturned
    /\ total_threads > 0
    /\ n = total_machines
    /\ Len(top_threads_out) >= 3
    /\ \E i \in Rows : df[i].Threads = 0

(* C9: the table is never changed once built: every later step leaves its *)
(* rows, cells and order as they are, and the table rendered at the end is *)
(* the table as built.                                                     *)
C9_TableNeverMutated ==
    /\ [][pc # "construct" => df' = df]_vars
    /\ [](pc # "construct" => df = DataFrame(infrastructure_data))
    /\ [](pc = "done" => table = DataFrame(infrastructure_data))

C9_UnsortedTableRendered ==
    /\ pc = "done"
    /\ Len(table) >= 2
    /\ \E i, j \in 1..Len(table) : i < j /\ table[i].Threads < table[j].Threads

====
